---- MODULE Spec2Model ----
(***************************************************************************)
(* A model of pytorch3d/vis/plotly_vis.py: plot_scene,                     *)
(* plot_batch_individually and the helpers that add traces to a plotly     *)
(* figure and widen the axis ranges of its 3D scenes.                      *)
(*                                                                         *)
(* Numbers.  Coordinates of the input structures are integers.  The code   *)
(* takes means of up to MaxPacked coordinates, so every coordinate that    *)
(* reaches the figure is kept as an integer number of 1/Denom units, with  *)
(* Denom a common multiple of every possible divisor: the arithmetic of    *)
(* the model is exact.  Colour channels are kept in 1/FScale units.        *)
(*                                                                         *)
(* plotly.  make_subplots, Figure.add_trace and layout.update are calls    *)
(* into the plotting library; the model records the arguments the code     *)
(* passes and the layout values it writes.                                 *)
(*                                                                         *)
(* Inputs.  Every mesh has at least one face and every point cloud at      *)
(* least one point: the tensor reductions the code applies (mean, max,     *)
(* min) are defined on these.                                              *)
(***************************************************************************)
EXTENDS Integers, Sequences, FiniteSets, TLC

VARIABLES
    pc,                 \* position of the call in progress
    batched_structs,    \* plot_batch_individually: argument
    extend_struct,      \* plot_batch_individually: argument
    subplot_titles,     \* plot_batch_individually: argument
    scene_dictionary,   \* plot_batch_individually: local
    scene_num,          \* plot_batch_individually: loop variable
    plots,              \* plot_scene: argument
    ncols,              \* plot_scene: argument
    pointcloud_max_points, \* plot_scene: argument
    kwargs,             \* plot_scene: argument
    fig,                \* plot_scene: local, the figure under construction
    subplot_idx,        \* plot_scene: outer loop variable
    trace_pos,          \* plot_scene: traces of the current subplot consumed
    indices,            \* _add_pointcloud_trace: local, of the last call
    warned,             \* messages passed to warnings.warn, in order
    raised,             \* the exception that ended the call, or NoError
    result              \* the value returned to the caller

vars == <<pc, batched_structs, extend_struct, subplot_titles, scene_dictionary,
          scene_num, plots, ncols, pointcloud_max_points, kwargs, fig,
          subplot_idx, trace_pos, indices, warned, raised, result>>

(***************************************************************************)
(* Bounds of the model.                                                    *)
(***************************************************************************)
MaxSubplots == 3
MaxTraces == 2
MaxCols == 2
MaxStructs == 2
MaxBatch == 3
MaxCloud == 2
MaxPts == 4
MaxSample == 2
MaxVerts == 5
MaxFaces == 2

\* Python's None, for values that are otherwise sequences.
None == <<>>

\* Python's min(a, b) and max(a, b): the first argument unless the second is
\* strictly smaller (larger).
PyMin(a, b) == IF b < a THEN b ELSE a

PyMax(a, b) == IF b > a THEN b ELSE a

RECURSIVE Gcd(_, _)
Gcd(a, b) == IF b = 0 THEN a ELSE Gcd(b, a % b)

RECURSIVE LcmUpTo(_)
LcmUpTo(n) == IF n <= 1 THEN 1 ELSE LET l == LcmUpTo(n - 1) IN (l * n) \div Gcd(l, n)

\* The largest number of vertices or points one trace can hold: 8 in the
\* structures of SceneStructs, MaxPts in those of CloudStructs, MaxVerts in
\* those of MeshStructs.
MaxPacked == PyMax(PyMax(8, MaxPts), MaxVerts)

\* Coordinates in the figure are integers in units of 1/Denom.
Denom == LcmUpTo(MaxPacked)

\* Colour channels are integers in units of 1/FScale.
FScale == 100

\* The precision of Python's "%f": six digits after the point.
FDigits == 6

RECURSIVE SumSeq(_)
SumSeq(s) == IF s = <<>> THEN 0 ELSE Head(s) + SumSeq(Tail(s))

RECURSIVE MaxSeq(_)
MaxSeq(s) == IF Len(s) = 1 THEN s[1] ELSE PyMax(s[1], MaxSeq(Tail(s)))

RECURSIVE MinSeq(_)
MinSeq(s) == IF Len(s) = 1 THEN s[1] ELSE PyMin(s[1], MinSeq(Tail(s)))

RECURSIVE Flatten(_)
Flatten(ss) == IF ss = <<>> THEN <<>> ELSE Head(ss) \o Flatten(Tail(ss))

Column(rows, a) == [k \in 1..Len(rows) |-> rows[k][a]]

Axes == 1..3

\* tensor.mean(0) of a non-empty list of 3-vectors given in 1/Denom units.
Mean0(rows) == [a \in Axes |-> SumSeq(Column(rows, a)) \div Len(rows)]

\* (verts.max(0)[0] - verts.min(0)[0]).max()
MaxExpand(rows) ==
    MaxSeq([a \in Axes |-> MaxSeq(Column(rows, a)) - MinSeq(Column(rows, a))])

\* tensor.clamp(0.0, 1.0) of one channel in 1/FScale units.
Clamp01(v) == IF v < 0 THEN 0 ELSE IF v > FScale THEN FScale ELSE v

(***************************************************************************)
(* Structures.  A Meshes or Pointclouds object is a batch: a sequence of   *)
(* elements.  A mesh element has vertices, faces (triples of 0-based       *)
(* vertex indices) and, when the batch has TexturesVertex textures, one    *)
(* rgb row per vertex.  A cloud element has points and, when the batch has *)
(* features, one feature row per point.                                    *)
(***************************************************************************)
Meshes(elems, textured) == [kind |-> "Meshes", elems |-> elems, textured |-> textured]

Pointclouds(elems, channels) ==
    [kind |-> "Pointclouds", elems |-> elems, channels |-> channels]

\* A value that is neither a Meshes nor a Pointclouds: a plain list.
OtherValue(n) == [kind |-> "Other", elems |-> [k \in 1..n |-> k]]

\* A Python list of structures, and isinstance(value, list).
List(items) == [kind |-> "list", elems |-> items]

IsList(value) == value.kind = "list"

\* subplot_titles: not given (None), or a list of strings.
NoTitles == [given |-> FALSE, titles |-> <<>>]

Titles(titles) == [given |-> TRUE, titles |-> titles]

\* The truth value of subplot_titles: None and the empty list are false.
Truthy(t) == t.given /\ Len(t.titles) > 0

\* len(struct) and struct[i] (0-based), which is a batch of one element.
StructLen(s) == Len(s.elems)

StructIndex(s, i) == [s EXCEPT !.elems = <<s.elems[i + 1]>>]

\* Coordinates of the structures are integers; the figure holds 1/Denom units.
Scaled(rows) ==
    [k \in 1..Len(rows) |-> [a \in Axes |-> rows[k][a] * Denom]]

\* pointclouds.points_packed(): the points of all elements, concatenated.
PointsPacked(s) ==
    Scaled(Flatten([b \in 1..Len(s.elems) |-> s.elems[b].points]))

\* A tensor of two or more dimensions: its shape and its rows.
Tensor(shape, data) == [shape |-> shape, data |-> data]

\* What features_packed() returns for a cloud without features.
NoTensor == [shape |-> <<>>, data |-> <<>>]

\* pointclouds.features_packed(): None, or an (N, C) tensor.
FeaturesPacked(s) ==
    IF s.channels = 0 THEN NoTensor
    ELSE LET rows == Flatten([b \in 1..Len(s.elems) |-> s.elems[b].features])
         IN  Tensor(<<Len(rows), s.channels>>, rows)

\* join_meshes_as_scene(meshes) and the packed accessors of the result: the
\* vertices concatenated, the faces offset by the vertices before them.
RECURSIVE VertsBefore(_, _)
VertsBefore(elems, b) ==
    IF b <= 1 THEN 0 ELSE Len(elems[b - 1].verts) + VertsBefore(elems, b - 1)

VertsPacked(s) ==
    Scaled(Flatten([b \in 1..Len(s.elems) |-> s.elems[b].verts]))

FacesPacked(s) ==
    Flatten([b \in 1..Len(s.elems) |->
        [f \in 1..Len(s.elems[b].faces) |->
            [c \in 1..3 |->
                s.elems[b].faces[f][c] + VertsBefore(s.elems, b)]]])

VertsFeaturesPacked(s) ==
    Flatten([b \in 1..Len(s.elems) |-> s.elems[b].vrgb])

(***************************************************************************)
(* String formatting.                                                      *)
(***************************************************************************)
RECURSIVE Pow10(_)
Pow10(n) == IF n = 0 THEN 1 ELSE 10 * Pow10(n - 1)

RECURSIVE DigitsOf(_, _)
DigitsOf(v, n) ==
    IF n = 0 THEN "" ELSE ToString((v \div Pow10(n - 1)) % 10) \o DigitsOf(v, n - 1)

\* "%d" % v for an integer v.
FormatD(v) == ToString(v)

\* "%f" % (a / FScale): the value rounded to FDigits digits after the point.
FormatF(a) ==
    LET mag == IF a < 0 THEN -a ELSE a
        micro == (2 * mag * Pow10(FDigits) + FScale) \div (2 * FScale)
    IN  (IF a < 0 /\ micro > 0 THEN "-" ELSE "")
        \o ToString(micro \div Pow10(FDigits)) \o "."
        \o DigitsOf(micro % Pow10(FDigits), FDigits)

\* (x.clamp(0.0, 1.0) * 255).int() of one channel.
Channel255(v) == (Clamp01(v) * 255) \div FScale

\* "rgb(%d, %d, %d, %f)" % (r, g, b, a) and "rgb(%d, %d, %d)" % (r, g, b)
TemplateRGBA(r, g, b, a) ==
    "rgb(" \o FormatD(r) \o ", " \o FormatD(g) \o ", " \o FormatD(b)
           \o ", " \o FormatF(a) \o ")"

TemplateRGB(r, g, b) ==
    "rgb(" \o FormatD(r) \o ", " \o FormatD(g) \o ", " \o FormatD(b) \o ")"

(***************************************************************************)
(* _update_axes_bounds                                                     *)
(***************************************************************************)
\* A mutant of WidenRange: the range the axis already has is forgotten.
WidenRangeForgetsOld(new_range, old_range) == new_range

\* One axis of lines 534-542: the candidate range, widened by the range the
\* axis already has, if it has one.
WidenRange(new_range, old_range) ==
    IF old_range # None
    THEN <<PyMin(new_range[1], old_range[1]), PyMax(new_range[2], old_range[2])>>
    ELSE new_range

\* layout.update({"xaxis": {"range": r}}): the axis keeps its other properties.
SetRange(axis, r) == [range |-> r] @@ axis

\* A mutant of UpdateAxesBounds: the spread is halved, so that the cube is
\* only as wide as the trace's largest spread.
UpdateAxesBoundsHalved(verts_center, max_expand, current_layout) ==
    LET bounds == [a \in Axes |-> <<verts_center[a] - (max_expand \div 2),
                                    verts_center[a] + (max_expand \div 2)>>]
    IN  [current_layout EXCEPT
            !.xaxis = SetRange(@, WidenRange(bounds[1], @.range)),
            !.yaxis = SetRange(@, WidenRange(bounds[2], @.range)),
            !.zaxis = SetRange(@, WidenRange(bounds[3], @.range))]

UpdateAxesBounds(verts_center, max_expand, current_layout) ==
    LET verts_min == [a \in Axes |-> verts_center[a] - max_expand]
        verts_max == [a \in Axes |-> verts_center[a] + max_expand]
        bounds == [a \in Axes |-> <<verts_min[a], verts_max[a]>>]
        x_range == WidenRange(bounds[1], current_layout.xaxis.range)
        y_range == WidenRange(bounds[2], current_layout.yaxis.range)
        z_range == WidenRange(bounds[3], current_layout.zaxis.range)
    IN  [current_layout EXCEPT !.xaxis = SetRange(@, x_range),
                               !.yaxis = SetRange(@, y_range),
                               !.zaxis = SetRange(@, z_range)]

(***************************************************************************)
(* _gen_fig_with_subplots                                                  *)
(***************************************************************************)
SceneName(n) == "scene" \o ToString(n)

\* A scene of a new figure: no axis has a range yet.
EmptyScene ==
    [xaxis |-> [range |-> None], yaxis |-> [range |-> None],
     zaxis |-> [range |-> None], aspectmode |-> "auto", camera |-> None]

\* The condition of the warning of line 492.
GridWarns(batch_size, cols) == (batch_size % cols) # 0

GridWarning == "ncols is invalid for the given mesh batch size."

\* A mutant of GenFigWithSubplots: the number of rows is rounded up.
GenFigRoundedUp(batch_size, cols, titles) ==
    LET fig_rows == (batch_size + cols - 1) \div cols
    IN  [rows |-> fig_rows,
         cols |-> cols,
         specs |-> [r \in 1..fig_rows |-> [c \in 1..cols |-> "scene"]],
         subplot_titles |-> titles,
         data |-> <<>>,
         layout |-> [n \in {SceneName(k) : k \in 1..batch_size} |-> EmptyScene]]

\* The figure make_subplots is asked for.  Its layout is given for every
\* scene name the callers address: scene1 .. scene<batch_size>.
GenFigWithSubplots(batch_size, cols, titles) ==
    LET fig_rows == batch_size \div cols
        fig_cols == cols
    IN  [rows |-> fig_rows,
         cols |-> fig_cols,
         specs |-> [r \in 1..fig_rows |-> [c \in 1..fig_cols |-> "scene"]],
         subplot_titles |-> titles,
         data |-> <<>>,
         layout |-> [n \in {SceneName(k) : k \in 1..batch_size} |-> EmptyScene]]

\* The subplot a trace of subplot_idx goes to (lines 384, 455-456).
GridRow(idx, cols) == (idx \div cols) + 1

GridCol(idx, cols) == (idx % cols) + 1

(***************************************************************************)
(* _add_mesh_trace                                                         *)
(***************************************************************************)
\* verts_used (lines 379-380): whether a face refers to vertex k (1-based).
VertsUsed(faces, k) == \E f \in 1..Len(faces) : \E c \in 1..3 : faces[f][c] = k - 1

SelectRows(rows, keep) ==
    LET F[k \in 0..Len(rows)] ==
            IF k = 0 THEN <<>>
            ELSE IF keep[k] THEN Append(F[k - 1], rows[k]) ELSE F[k - 1]
    IN  F[Len(rows)]

\* A mutant of MeshCenter: the mean of all the vertices, used or not.
MeshCenterOfAll(meshes) == Mean0(VertsPacked(meshes))

\* verts_center (line 381): the mean of the vertices some face refers to.
MeshCenter(meshes) ==
    LET verts == VertsPacked(meshes)
        faces == FacesPacked(meshes)
        verts_used == [k \in 1..Len(verts) |-> VertsUsed(faces, k)]
    IN  Mean0(SelectRows(verts, verts_used))

\* verts after line 382: the unused vertices moved to verts_center.
MeshPlottedVerts(meshes) ==
    LET verts == VertsPacked(meshes)
        faces == FacesPacked(meshes)
        verts_center == MeshCenter(meshes)
    IN  [k \in 1..Len(verts) |->
            IF VertsUsed(faces, k) THEN verts[k] ELSE verts_center]

\* verts_rgb (lines 371-375): None, or 255 times the clamped vertex colours.
MeshVertsRgb(meshes) ==
    IF meshes.textured
    THEN LET rgb == VertsFeaturesPacked(meshes)
         IN  [k \in 1..Len(rgb) |->
                [c \in 1..3 |-> 255 * Clamp01(rgb[k][c])]]
    ELSE None

AddMeshTrace(f, meshes, trace_name, idx, cols, lighting) ==
    LET faces == FacesPacked(meshes)
        verts_center == MeshCenter(meshes)
        verts == MeshPlottedVerts(meshes)
        trace == [type |-> "mesh3d",
                  x |-> Column(verts, 1), y |-> Column(verts, 2),
                  z |-> Column(verts, 3),
                  vertexcolor |-> MeshVertsRgb(meshes),
                  i |-> Column(faces, 1), j |-> Column(faces, 2),
                  k |-> Column(faces, 3),
                  lighting |-> lighting, name |-> trace_name,
                  row |-> GridRow(idx, cols), col |-> GridCol(idx, cols)]
        plot_scene == SceneName(idx + 1)
        max_expand == MaxExpand(verts)
    IN  [f EXCEPT !.data = Append(@, trace),
                  !.layout[plot_scene] =
                      UpdateAxesBounds(verts_center, max_expand, @)]

(***************************************************************************)
(* _add_pointcloud_trace                                                   *)
(***************************************************************************)
\* The local variable indices: None, or the array np.random.choice returned.
NoIndices == [none |-> TRUE, at |-> <<>>]

Chosen(at) == [none |-> FALSE, at |-> at]

\* tensor[None]: a new first dimension of size 1 around the tensor.
IndexNone(t) == Tensor(<<1>> \o t.shape, <<t.data>>)

\* tensor[array]: the rows at the (0-based) positions of the array, in order.
IndexArr(t, at) ==
    Tensor(<<Len(at)>> \o Tail(t.shape),
           [k \in 1..Len(at) |-> t.data[at[k] + 1]])

\* A mutant of IndexFeatures: the first rows, as many as there are indices.
IndexFeaturesFirstRows(t, ind) ==
    IF ind.none THEN IndexNone(t)
    ELSE IndexArr(t, [k \in 1..Len(ind.at) |-> k - 1])

\* features[indices] (line 444), whatever indices is.
IndexFeatures(t, ind) == IF ind.none THEN IndexNone(t) ELSE IndexArr(t, ind.at)

\* verts[indices] (line 440), taken only when indices is an array.
IndexVerts(rows, ind) ==
    IF ind.none THEN rows
    ELSE [k \in 1..Len(ind.at) |-> rows[ind.at[k] + 1]]

\* What np.random.choice(n, total, replace=False) can return: every sequence
\* of total distinct numbers below n.
RandomChoice(n, total) ==
    {Chosen(at) : at \in {q \in [1..total -> 0..(n - 1)] :
                            \A a, b \in 1..total : a # b => q[a] # q[b]}}

\* The values indices can have after lines 437-440.
IndicesChoices(pointclouds, max_points_per_pointcloud) ==
    LET n == Len(PointsPacked(pointclouds))
        total_points_count == max_points_per_pointcloud * StructLen(pointclouds)
    IN  IF n > total_points_count THEN RandomChoice(n, total_points_count)
        ELSE {NoIndices}

ColorOk(color) == [ok |-> TRUE, color |-> color]

\* "%d" and "%f" need one number: a tensor of several elements is refused.
ColorError == [ok |-> FALSE, color |-> None]

\* Lines 445-448 for a tensor whose shape[1] is 4.  Iterating a two-dimensional
\* tensor gives rows of numbers; iterating a three-dimensional one gives
\* matrices, whose rows "%d" converts only when they hold a single element.
Color4(features) ==
    IF Len(features.shape) = 2
    THEN ColorOk([k \in 1..Len(features.data) |->
            LET row == features.data[k]
            IN  TemplateRGBA(Channel255(row[1]), Channel255(row[2]),
                             Channel255(row[3]), row[4])])
    ELSE IF features.shape[3] = 1
    THEN ColorOk([k \in 1..Len(features.data) |->
            LET m == features.data[k]
            IN  TemplateRGBA(Channel255(m[1][1]), Channel255(m[2][1]),
                             Channel255(m[3][1]), m[4][1])])
    ELSE ColorError

\* Lines 450-453 for a tensor whose shape[1] is 3.
Color3(features) ==
    IF Len(features.shape) = 2
    THEN ColorOk([k \in 1..Len(features.data) |->
            LET row == features.data[k]
            IN  TemplateRGB(Channel255(row[1]), Channel255(row[2]),
                            Channel255(row[3]))])
    ELSE IF features.shape[3] = 1
    THEN ColorOk([k \in 1..Len(features.data) |->
            LET m == features.data[k]
            IN  TemplateRGB(Channel255(m[1][1]), Channel255(m[2][1]),
                            Channel255(m[3][1]))])
    ELSE ColorError

\* color (lines 442-453).
PointColor(features_packed, ind) ==
    IF features_packed = NoTensor THEN ColorOk(None)
    ELSE LET features == IndexFeatures(features_packed, ind)
         IN  IF features.shape[2] = 4 THEN Color4(features)
             ELSE IF features.shape[2] = 3 THEN Color3(features)
             ELSE ColorOk(None)

\* Whether the call returns: it raises when a colour cannot be formatted.
PointcloudTraceOk(pointclouds, ind) ==
    PointColor(FeaturesPacked(pointclouds), ind).ok

AddPointcloudTrace(f, pointclouds, trace_name, idx, cols, marker_size, ind) ==
    LET verts == IndexVerts(PointsPacked(pointclouds), ind)
        color == PointColor(FeaturesPacked(pointclouds), ind).color
        trace == [type |-> "scatter3d",
                  x |-> Column(verts, 1), y |-> Column(verts, 2),
                  z |-> Column(verts, 3),
                  marker |-> [color |-> color, size |-> marker_size],
                  mode |-> "markers", name |-> trace_name,
                  row |-> GridRow(idx, cols), col |-> GridCol(idx, cols)]
        plot_scene == SceneName(idx + 1)
        verts_center == Mean0(verts)
        max_expand == MaxExpand(verts)
    IN  [f EXCEPT !.data = Append(@, trace),
                  !.layout[plot_scene] =
                      UpdateAxesBounds(verts_center, max_expand, @)]

(***************************************************************************)
(* Dictionaries keep insertion order: a sequence of [key, value] pairs     *)
(* with distinct keys.                                                     *)
(***************************************************************************)
DictKeys(d) == [k \in 1..Len(d) |-> d[k].key]

DictHas(d, key) == \E k \in 1..Len(d) : d[k].key = key

DictGet(d, key) == d[CHOOSE k \in 1..Len(d) : d[k].key = key].value

\* d[key] = value: replaces the value of a key the dictionary has, in place.
DictSet(d, key, value) ==
    IF DictHas(d, key)
    THEN [k \in 1..Len(d) |-> IF d[k].key = key THEN [key |-> key, value |-> value]
                                                   ELSE d[k]]
    ELSE Append(d, [key |-> key, value |-> value])

\* kwargs.get(name, default)
KwGet(kw, name, default) == IF name \in DOMAIN kw THEN kw[name] ELSE default

(***************************************************************************)
(* plot_scene                                                              *)
(***************************************************************************)
\* AxisArgs() and Lighting(), as dictionaries (lines 14-31).
AxisArgs ==
    [showgrid |-> FALSE, zeroline |-> FALSE, showline |-> FALSE, ticks |-> "",
     showticklabels |-> FALSE, backgroundcolor |-> "#fff",
     showaxeslabels |-> FALSE]

Lighting ==
    [ambient |-> "0.8", diffuse |-> "1.0", fresnel |-> "0.0", specular |-> "0.0",
     roughness |-> "0.5", facenormalsepsilon |-> "1e-6",
     vertexnormalsepsilon |-> "1e-12"]

\* x_settings, y_settings, z_settings (lines 139-149): the axis arguments,
\* overlaid with the xaxis, yaxis or zaxis dictionary of kwargs.
AxisSettings(kw, axis) ==
    IF axis \in DOMAIN kw THEN kw[axis] @@ KwGet(kw, "axis_args", AxisArgs)
    ELSE KwGet(kw, "axis_args", AxisArgs)

Camera == [up |-> [x |-> 0, y |-> 1, z |-> 0]]

\* pointcloud_marker_size, left at its default.
PointcloudMarkerSize == 1

NoFig == [created |-> FALSE]

NoError == [type |-> "none", msg |-> ""]

NoResult == [some |-> FALSE]

Returned(value) == [some |-> TRUE, value |-> value]

\* Lines 136-157: the figure is generated before any trace is looked at.
GenFig ==
    /\ pc = "plot_scene"
    /\ LET subplots == DictKeys(plots)
       IN  /\ fig' = GenFigWithSubplots(Len(subplots), ncols, subplots)
           /\ warned' = IF GridWarns(Len(subplots), ncols)
                        THEN Append(warned, GridWarning) ELSE warned
    /\ subplot_idx' = 0
    /\ trace_pos' = 0
    /\ pc' = "traces"
    /\ UNCHANGED <<batched_structs, extend_struct, subplot_titles,
                   scene_dictionary, scene_num, plots, ncols,
                   pointcloud_max_points, kwargs, indices, raised, result>>

\* The traces of the subplot the outer loop is at.
CurrentTraces == plots[subplot_idx + 1].value

\* The error of lines 176-178, which names the value.
NotAStructMsg == "struct {} is not a Meshes or Pointclouds object"

\* A mutant of InvalidStruct: the error names another value.
InvalidStructNamesAnother(struct) ==
    [type |-> "ValueError", msg |-> NotAStructMsg, value |-> OtherValue(0)]

InvalidStruct(struct) ==
    [type |-> "ValueError", msg |-> NotAStructMsg, value |-> struct]

\* The error "%d" or "%f" raises for a tensor of several elements.
NotAScalar(struct) ==
    [type |-> "TypeError",
     msg |-> "only one element tensors can be converted to Python scalars",
     value |-> struct]

\* One iteration of the inner loop (lines 162-178).
AddTrace ==
    /\ pc = "traces"
    /\ subplot_idx < Len(plots)
    /\ trace_pos < Len(CurrentTraces)
    /\ LET trace_name == CurrentTraces[trace_pos + 1].key
           struct == CurrentTraces[trace_pos + 1].value
           lighting == KwGet(kwargs, "lighting", Lighting)
       IN  IF struct.kind = "Meshes"
           THEN /\ fig' = AddMeshTrace(fig, struct, trace_name, subplot_idx,
                                       ncols, lighting)
                /\ trace_pos' = trace_pos + 1
                /\ UNCHANGED <<pc, raised, indices>>
           ELSE IF struct.kind = "Pointclouds"
           THEN \E ind \in IndicesChoices(struct, pointcloud_max_points) :
                  /\ indices' = ind
                  /\ IF PointcloudTraceOk(struct, ind)
                     THEN /\ fig' = AddPointcloudTrace(fig, struct, trace_name,
                                        subplot_idx, ncols,
                                        PointcloudMarkerSize, ind)
                          /\ trace_pos' = trace_pos + 1
                          /\ UNCHANGED <<pc, raised>>
                     ELSE /\ raised' = NotAScalar(struct)
                          /\ pc' = "raised"
                          /\ UNCHANGED <<fig, trace_pos>>
           ELSE /\ raised' = InvalidStruct(struct)
                /\ pc' = "raised"
                /\ UNCHANGED <<fig, trace_pos, indices>>
    /\ UNCHANGED <<batched_structs, extend_struct, subplot_titles,
                   scene_dictionary, scene_num, plots, ncols,
                   pointcloud_max_points, kwargs, subplot_idx, warned, result>>

\* Lines 180-200, once the traces of the subplot are added: the axes get the
\* settings, the scene its aspect mode and camera.
StyledScene(current_layout, kw) ==
    [current_layout EXCEPT
        !.xaxis = AxisSettings(kw, "xaxis") @@ @,
        !.yaxis = AxisSettings(kw, "yaxis") @@ @,
        !.zaxis = AxisSettings(kw, "zaxis") @@ @,
        !.aspectmode = "cube",
        !.camera = Camera]

StyleSubplot ==
    /\ pc = "traces"
    /\ subplot_idx < Len(plots)
    /\ trace_pos = Len(CurrentTraces)
    /\ fig' = [fig EXCEPT !.layout[SceneName(subplot_idx + 1)] =
                              StyledScene(@, kwargs)]
    /\ subplot_idx' = subplot_idx + 1
    /\ trace_pos' = 0
    /\ UNCHANGED <<pc, batched_structs, extend_struct, subplot_titles,
                   scene_dictionary, scene_num, plots, ncols,
                   pointcloud_max_points, kwargs, indices, warned, raised,
                   result>>

\* Line 202.
ReturnFig ==
    /\ pc = "traces"
    /\ subplot_idx = Len(plots)
    /\ result' = Returned(fig)
    /\ pc' = "returned"
    /\ UNCHANGED <<batched_structs, extend_struct, subplot_titles,
                   scene_dictionary, scene_num, plots, ncols,
                   pointcloud_max_points, kwargs, fig, subplot_idx, trace_pos,
                   indices, warned, raised>>

(***************************************************************************)
(* The calls of plot_scene the model explores.                             *)
(***************************************************************************)
TriA == [verts |-> <<<<0, 0, 0>>, <<2, 0, 0>>, <<0, 2, 0>>, <<5, 5, 5>>>>,
         faces |-> <<<<0, 1, 2>>>>,
         vrgb |-> <<<<0, FScale \div 2, FScale>>, <<2 * FScale, -FScale, 0>>,
                    <<FScale \div 4, FScale, FScale>>, <<0, 0, 0>>>>]

TriB == [verts |-> <<<<0, 0, 1>>, <<1, 0, 1>>, <<0, 1, 1>>>>,
         faces |-> <<<<2, 1, 0>>>>,
         vrgb |-> <<<<FScale, FScale, FScale>>, <<0, 0, 0>>, <<0, FScale, 0>>>>]

CloudC == [points |-> <<<<0, -4, 2>>, <<1, 1, 1>>>>,
           features |-> <<<<0, 0, 0, FScale>>, <<FScale, FScale, 0, 2 * FScale>>>>]

\* The values of plots: a batch of two meshes, one of which has a vertex no
\* face refers to; a cloud of two points, which pointcloud_max_points = 1
\* sub-samples; a value that is neither.
SceneStructs ==
    {Meshes(<<TriA, TriB>>, TRUE), Pointclouds(<<CloudC>>, 4), OtherValue(2)}

RECURSIVE TraceLists(_)
TraceLists(n) ==
    IF n = 0 THEN {<<>>}
    ELSE {Append(t, s) : t \in TraceLists(n - 1), s \in SceneStructs}

\* The trace dictionary of a subplot: its keys are t1, t2, ...
TraceDict(structs) ==
    [k \in 1..Len(structs) |-> [key |-> "t" \o ToString(k), value |-> structs[k]]]

\* Every list of n subplots' trace lists holding at most t traces together.
RECURSIVE SubplotLists(_, _)
SubplotLists(n, t) ==
    IF n = 0 THEN {<<>>}
    ELSE UNION {{<<first>> \o rest : first \in TraceLists(k),
                                     rest \in SubplotLists(n - 1, t - k)}
                : k \in 0..t}

SceneDict(lists) ==
    [k \in 1..Len(lists) |->
        [key |-> "s" \o ToString(k), value |-> TraceDict(lists[k])]]

SceneDicts ==
    UNION {{SceneDict(l) : l \in SubplotLists(n, MaxTraces)} : n \in 0..MaxSubplots}

\* The keyword arguments: an override of one axis that sets no range, and
\* axis arguments with an override that sets the range of the x axis.
KwargsChoices ==
    {[yaxis |-> [showgrid |-> TRUE]],
     [axis_args |-> [AxisArgs EXCEPT !.ticks = "outside"],
      xaxis |-> [range |-> <<0, Denom>>]]}

\* The default of pointcloud_max_points.
DefaultMaxPoints == 20000

Init ==
    /\ pc = "plot_scene"
    /\ batched_structs = List(<<>>)
    /\ extend_struct = TRUE
    /\ subplot_titles = NoTitles
    /\ scene_dictionary = <<>>
    /\ scene_num = 0
    /\ plots \in SceneDicts
    /\ ncols \in 1..MaxCols
    /\ pointcloud_max_points \in {1, DefaultMaxPoints}
    /\ kwargs \in KwargsChoices
    /\ fig = NoFig
    /\ subplot_idx = 0
    /\ trace_pos = 0
    /\ indices = NoIndices
    /\ warned = <<>>
    /\ raised = NoError
    /\ result = NoResult

Next == GenFig \/ AddTrace \/ StyleSubplot \/ ReturnFig

Spec == Init /\ [][Next]_vars

(***************************************************************************)
(* Properties of plot_scene.                                               *)
(***************************************************************************)
AxisNames == <<"xaxis", "yaxis", "zaxis">>

\* How many traces the loops of plot_scene have consumed of subplot n (1-based)
\* and of the subplots before it.
ConsumedOf(n) ==
    IF n - 1 < subplot_idx THEN Len(plots[n].value)
    ELSE IF n - 1 = subplot_idx THEN trace_pos ELSE 0

RECURSIVE ConsumedBefore(_)
ConsumedBefore(n) == IF n <= 1 THEN 0 ELSE ConsumedOf(n - 1) + ConsumedBefore(n - 1)

\* The traces of the figure that come from subplot n of plots, in the order
\* they were added.
AddedTraces(n) ==
    SubSeq(fig.data, ConsumedBefore(n) + 1, ConsumedBefore(n) + ConsumedOf(n))

TracePoints(tr) == [k \in 1..Len(tr.x) |-> <<tr.x[k], tr.y[k], tr.z[k]>>]

\* The cube a trace induces: [center - e, center + e] on each axis, with e
\* the largest spread of the trace over the three axes.
Cube(tr) ==
    LET pts == TracePoints(tr)
        c == Mean0(pts)
        e == MaxExpand(pts)
    IN  [a \in Axes |-> <<c[a] - e, c[a] + e>>]

Cubes(trs) == [k \in 1..Len(trs) |-> Cube(trs[k])]

Started == pc \in {"traces", "raised", "returned"} /\ fig # NoFig

\* The axis of scene n was given a range by the styling of plot_scene.
RangeOverridden(n, a) ==
    /\ n - 1 < subplot_idx
    /\ AxisNames[a] \in DOMAIN kwargs
    /\ "range" \in DOMAIN kwargs[AxisNames[a]]

AxisRange(f, n, a) == f.layout[SceneName(n)][AxisNames[a]].range

Orders(n) == {q \in [1..n -> 1..n] : \A i, j \in 1..n : i # j => q[i] # q[j]}

\* The accumulator applied to the cubes in the order q, from no range.
RECURSIVE FoldRanges(_, _, _, _)
FoldRanges(cubes, q, a, upto) ==
    IF upto = 0 THEN None
    ELSE WidenRange(cubes[q[upto]][a], FoldRanges(cubes, q, a, upto - 1))

RangeIsUnionOfCubes ==
    Started =>
        \A n \in 1..Len(plots) :
            LET cubes == Cubes(AddedTraces(n))
                count == Len(cubes)
            IN  \A a \in Axes :
                  LET r == AxisRange(fig, n, a)
                  IN  RangeOverridden(n, a) \/
                      /\ (count = 0) => (r = None)
                      /\ (count # 0) =>
                           /\ r # None
                           /\ r[1] = MinSeq([k \in 1..count |-> cubes[k][a][1]])
                           /\ r[2] = MaxSeq([k \in 1..count |-> cubes[k][a][2]])
                           /\ \A k \in 1..count :
                                  r[1] <= cubes[k][a][1] /\ cubes[k][a][2] <= r[2]
                           /\ \A q \in Orders(count) :
                                  FoldRanges(cubes, q, a, count) = r

\* A step that adds a trace leaves every range that existed at least as wide.
RangeNeverShrinks ==
    (Started /\ Len(fig'.data) > Len(fig.data)) =>
        \A n \in 1..Len(plots) : \A a \in Axes :
            AxisRange(fig, n, a) # None =>
                /\ AxisRange(fig', n, a) # None
                /\ AxisRange(fig', n, a)[1] <= AxisRange(fig, n, a)[1]
                /\ AxisRange(fig', n, a)[2] >= AxisRange(fig, n, a)[2]

\* C1: a subplot's range on each axis is null before the first trace is added
\* and afterwards exactly [least lower end, greatest upper end] of the cubes
\* of the traces added so far; it contains every added cube, never shrinks
\* when a trace is added, and is the same for every order of the additions.
C1_RangeAccumulates == []RangeIsUnionOfCubes /\ [][RangeNeverShrinks]_vars

\* C1 witness: a subplot with two traces whose range is wider than the cube
\* of either trace alone.
C1_Witness ==
    /\ Started
    /\ \E n \in 1..Len(plots) :
          /\ Len(AddedTraces(n)) >= 2
          /\ ~RangeOverridden(n, 1)
          /\ \A k \in 1..Len(AddedTraces(n)) :
                AxisRange(fig, n, 1) # Cube(AddedTraces(n)[k])[1]

NoRangeOverride ==
    \A a \in Axes :
        ~(AxisNames[a] \in DOMAIN kwargs /\ "range" \in DOMAIN kwargs[AxisNames[a]])

FigureReturned == pc = "returned" /\ result.some

\* C2: in the figure plot_scene returns, when no axis override sets a range,
\* every plotted vertex and point of every trace of a subplot lies within the
\* subplot's final range on each axis.
C2_TracesVisible ==
    (FigureReturned /\ NoRangeOverride) =>
        \A n \in 1..Len(plots) :
            LET trs == AddedTraces(n)
            IN  \A k \in 1..Len(trs) : \A a \in Axes :
                  LET r == AxisRange(result.value, n, a)
                      xs == Column(TracePoints(trs[k]), a)
                  IN  \A p \in 1..Len(xs) : r[1] <= xs[p] /\ xs[p] <= r[2]

\* C2 witness: a returned figure with a subplot that holds a mesh trace and a
\* sub-sampled point cloud trace, added before and after other traces.
C2_Witness ==
    /\ FigureReturned /\ NoRangeOverride
    /\ \E n \in 1..Len(plots) :
          /\ Len(AddedTraces(n)) >= 2
          /\ \E k \in 1..Len(AddedTraces(n)) : AddedTraces(n)[k].type = "mesh3d"
          /\ \E k \in 1..Len(AddedTraces(n)) :
                /\ AddedTraces(n)[k].type = "scatter3d"
                /\ Len(AddedTraces(n)[k].x)
                     < Len(PointsPacked(plots[n].value[k].value))

IsStruct(v) == v.kind \in {"Meshes", "Pointclouds"}

RaisedInvalidStruct == raised.type = "ValueError" /\ raised.msg = NotAStructMsg

\* C4 as stated: when the invalid-input error is raised, no subplot grid has
\* been created and no trace has been added.
C4_Original == RaisedInvalidStruct => fig = NoFig

\* C4 amended: the invalid-input error names the first value, in iteration
\* order, that is neither a Meshes nor a Pointclouds; when it is raised the
\* subplot grid has been created and exactly the traces before that value have
\* been added, and no figure is returned.  A figure is returned only when
\* every value is a Meshes or a Pointclouds.
C4_RaisedAtTheBadValue ==
    /\ RaisedInvalidStruct =>
          /\ pc = "raised" /\ result = NoResult
          /\ raised.value = CurrentTraces[trace_pos + 1].value
          /\ ~IsStruct(raised.value)
          /\ fig # NoFig
          /\ fig.cols = ncols /\ fig.subplot_titles = DictKeys(plots)
          /\ Len(fig.data) = ConsumedBefore(subplot_idx + 1) + trace_pos
          /\ \A n \in 1..(subplot_idx + 1) : \A k \in 1..ConsumedOf(n) :
                /\ IsStruct(plots[n].value[k].value)
                /\ AddedTraces(n)[k].name = plots[n].value[k].key
    /\ FigureReturned =>
          \A n \in 1..Len(plots) : \A k \in 1..Len(plots[n].value) :
              IsStruct(plots[n].value[k].value)

\* C4 witness: the error is raised in a later subplot, after a trace was added.
C4_Witness ==
    /\ RaisedInvalidStruct
    /\ subplot_idx >= 1
    /\ Len(fig.data) >= 1

InSeq(x, seq) == \E k \in 1..Len(seq) : seq[k] = x

NoStructsMsg == "No structs to plot"

InvalidBatchSizeMsg == "invalid batch size {} provided: {}"

NoDataMsg == "No data is provided with at least one element"

InvalidTitlesMsg == "invalid number of subplot titles"

ValueError(msg, value) == [type |-> "ValueError", msg |-> msg, value |-> value]

\* A mutant of NoStructs: only a single structure can be empty.
NoStructsSingleOnly(value) == ~IsList(value) /\ StructLen(value) = 0

\* Line 270: len(batched_structs) == 0, of a list or of a single structure.
NoStructs(value) == StructLen(value) = 0

\* max(len(s) for s in batched_structs) (line 276), and line 283.
RECURSIVE MaxLen(_)
MaxLen(structs) ==
    IF Len(structs) = 1 THEN StructLen(structs[1])
    ELSE PyMax(StructLen(structs[1]), MaxLen(Tail(structs)))

MaxSize(value) == IF IsList(value) THEN MaxLen(value.elems) ELSE StructLen(value)

\* Lines 277-280: the first structure whose length is neither 1 nor max_size.
RECURSIVE BatchSizeError(_, _)
BatchSizeError(structs, max_size) ==
    IF structs = <<>> THEN NoError
    ELSE IF StructLen(structs[1]) \notin {1, max_size}
    THEN ValueError(InvalidBatchSizeMsg, structs[1])
    ELSE BatchSizeError(Tail(structs), max_size)

\* A mutant of TitlesError: the number of titles is not looked at.
TitlesErrorNever(titles, max_size) == NoError

\* Lines 288-291.
TitlesError(titles, max_size) ==
    IF Truthy(titles) /\ Len(titles.titles) # max_size
    THEN ValueError(InvalidTitlesMsg, titles)
    ELSE NoError

\* The exception lines 274-291 end with, or NoError.  max() of no lengths
\* raises a ValueError of its own.
BatchError(value, titles) ==
    IF IsList(value) /\ value.elems = <<>>
    THEN ValueError("max() arg is an empty sequence", value)
    ELSE LET max_size == MaxSize(value)
             size_error == IF IsList(value)
                           THEN BatchSizeError(value.elems, max_size)
                           ELSE NoError
         IN  IF size_error # NoError THEN size_error
             ELSE IF max_size = 0 THEN ValueError(NoDataMsg, value)
             ELSE TitlesError(titles, max_size)

\* Lines 269-293: the checks of the arguments, then the empty dictionary.
ValidateBatch ==
    /\ pc = "plot_batch_individually"
    /\ IF NoStructs(batched_structs)
       THEN /\ warned' = Append(warned, NoStructsMsg)
            /\ result' = Returned(None)
            /\ pc' = "returned"
            /\ UNCHANGED raised
       ELSE IF BatchError(batched_structs, subplot_titles) # NoError
       THEN /\ raised' = BatchError(batched_structs, subplot_titles)
            /\ pc' = "raised"
            /\ UNCHANGED <<warned, result>>
       ELSE /\ pc' = "scenes"
            /\ UNCHANGED <<warned, result, raised>>
    /\ scene_dictionary' = <<>>
    /\ scene_num' = 0
    /\ UNCHANGED <<batched_structs, extend_struct, subplot_titles, plots, ncols,
                   pointcloud_max_points, kwargs, fig, subplot_idx, trace_pos,
                   indices>>


\* Lines 296-300: the title of the subplot of scene_num.
SubplotTitle(titles, n) ==
    IF Truthy(titles) THEN titles.titles[n + 1] ELSE "subplot " \o ToString(n + 1)

\* "trace{}-{}".format(scene_num + 1, trace_idx) (line 340).
TraceName(n, trace_idx) == "trace" \o ToString(n + 1) \o "-" \o ToString(trace_idx)

\* _add_struct_from_batch (lines 319-341).
AddStructFromBatch(batched_struct, n, subplot_title, dictionary, trace_idx) ==
    LET struct_idx == PyMin(n, StructLen(batched_struct) - 1)
        struct == StructIndex(batched_struct, struct_idx)
        trace_name == TraceName(n, trace_idx)
    IN  DictSet(dictionary, subplot_title,
                DictSet(DictGet(dictionary, subplot_title), trace_name, struct))

\* Line 306: whether the structure at position i of the list is left out.
SkipStruct(i, batched_struct, extend) == i >= StructLen(batched_struct) /\ ~extend

\* Lines 304-310: the loop over the list, from position i on.
RECURSIVE AddStructsFrom(_, _, _, _, _, _)
AddStructsFrom(structs, i, n, subplot_title, dictionary, extend) ==
    IF i >= Len(structs) THEN dictionary
    ELSE AddStructsFrom(structs, i + 1, n, subplot_title,
            IF SkipStruct(i, structs[i + 1], extend) THEN dictionary
            ELSE AddStructFromBatch(structs[i + 1], n, subplot_title,
                                    dictionary, i + 1),
            extend)

\* One iteration of the loop of lines 295-314.
AddScene ==
    /\ pc = "scenes"
    /\ scene_num < MaxSize(batched_structs)
    /\ LET subplot_title == SubplotTitle(subplot_titles, scene_num)
           emptied == DictSet(scene_dictionary, subplot_title, <<>>)
       IN  scene_dictionary' =
               IF IsList(batched_structs)
               THEN AddStructsFrom(batched_structs.elems, 0, scene_num,
                                   subplot_title, emptied, extend_struct)
               ELSE AddStructFromBatch(batched_structs, scene_num,
                                       subplot_title, emptied, 1)
    /\ scene_num' = scene_num + 1
    /\ UNCHANGED <<pc, batched_structs, extend_struct, subplot_titles, plots,
                   ncols, pointcloud_max_points, kwargs, fig, subplot_idx,
                   trace_pos, indices, warned, raised, result>>

\* Line 316: the scene dictionary goes to plot_scene, whose figure is returned.
Delegate ==
    /\ pc = "scenes"
    /\ scene_num = MaxSize(batched_structs)
    /\ plots' = scene_dictionary
    /\ pc' = "plot_scene"
    /\ UNCHANGED <<batched_structs, extend_struct, subplot_titles,
                   scene_dictionary, scene_num, ncols, pointcloud_max_points,
                   kwargs, fig, subplot_idx, trace_pos, indices, warned, raised,
                   result>>

(***************************************************************************)
(* The calls of plot_batch_individually the model explores.                *)
(***************************************************************************)
\* Element b of a batch of meshes, and of a batch of clouds: the elements of
\* one batch differ from each other.
BatchTri(b) == [verts |-> <<<<b, 0, 0>>, <<b + 1, 0, 0>>, <<b, 1, 0>>>>,
                faces |-> <<<<0, 1, 2>>>>, vrgb |-> <<>>]

BatchPoint(b) == [points |-> <<<<0, b, 0>>>>, features |-> <<>>]

BatchMeshes(n) == Meshes([b \in 1..n |-> BatchTri(b)], FALSE)

BatchClouds(n) == Pointclouds([b \in 1..n |-> BatchPoint(b)], 0)

\* Batches of 0..MaxBatch meshes and of 1..MaxCloud clouds.
BatchStructs ==
    {BatchMeshes(n) : n \in 0..MaxBatch} \cup {BatchClouds(n) : n \in 1..MaxCloud}

RECURSIVE StructLists(_)
StructLists(n) ==
    IF n = 0 THEN {<<>>}
    ELSE {Append(l, s) : l \in StructLists(n - 1), s \in BatchStructs}

\* batched_structs: a list of 0..MaxStructs batches, or a single batch.
BatchedStructsChoices ==
    UNION {{List(l) : l \in StructLists(n)} : n \in 0..MaxStructs}
    \cup BatchStructs

\* subplot_titles: None, the lists of 0..MaxBatch distinct titles, and a list
\* that names two subplots alike.
TitleNames == [k \in 1..MaxBatch |-> "title " \o ToString(k)]

TitlesChoices ==
    {NoTitles} \cup {Titles(SubSeq(TitleNames, 1, n)) : n \in 0..MaxBatch}
    \cup {Titles(<<TitleNames[1], TitleNames[1]>>)}

InitBatch ==
    /\ pc = "plot_batch_individually"
    /\ batched_structs \in BatchedStructsChoices
    /\ extend_struct \in BOOLEAN
    /\ subplot_titles \in TitlesChoices
    /\ scene_dictionary = <<>>
    /\ scene_num = 0
    /\ plots = <<>>
    /\ ncols \in 1..MaxCols
    /\ pointcloud_max_points = DefaultMaxPoints
    /\ kwargs = [yaxis |-> [showgrid |-> TRUE]]
    /\ fig = NoFig
    /\ subplot_idx = 0
    /\ trace_pos = 0
    /\ indices = NoIndices
    /\ warned = <<>>
    /\ raised = NoError
    /\ result = NoResult

NextBatch ==
    \/ ValidateBatch \/ AddScene \/ Delegate
    \/ GenFig \/ AddTrace \/ StyleSubplot \/ ReturnFig

SpecBatch == InitBatch /\ [][NextBatch]_vars


(***************************************************************************)
(* Properties of plot_batch_individually.                                  *)
(***************************************************************************)
\* The checks of the arguments are over.
Validated == pc # "plot_batch_individually"

\* The scene dictionary is complete and has gone to plot_scene.
Built == pc \in {"plot_scene", "traces", "returned"} /\ plots # <<>>

EmptyList == IsList(batched_structs) /\ batched_structs.elems = <<>>

\* The batch lengths of the input: of the elements of a list, or of the
\* single structure.
BatchLens ==
    IF IsList(batched_structs)
    THEN {StructLen(batched_structs.elems[k]) : k \in 1..Len(batched_structs.elems)}
    ELSE {StructLen(batched_structs)}

LargestLen == CHOOSE m \in BatchLens : \A l \in BatchLens : l <= m

RaisedValidation ==
    /\ pc = "raised"
    /\ raised.type = "ValueError"
    /\ raised.msg \in {InvalidBatchSizeMsg, NoDataMsg, InvalidTitlesMsg}

NothingBuilt == scene_dictionary = <<>> /\ plots = <<>> /\ fig = NoFig

\* C3 as stated: with extend_struct=False a list's structure has a trace in
\* subplot n exactly when n is below its batch length (so sizes 1 and 3 give
\* both traces in subplot 1 and only the size-3 structure's in subplots 2, 3).
C3_OmittedExactlyBeyondLength ==
    (Built /\ IsList(batched_structs) /\ ~extend_struct /\ ~Truthy(subplot_titles))
    => /\ Len(plots) = LargestLen
       /\ \A n \in 0..(LargestLen - 1) :
            \A i \in 0..(Len(batched_structs.elems) - 1) :
                DictHas(plots[n + 1].value, TraceName(n, i + 1))
                <=> n < StructLen(batched_structs.elems[i + 1])

\* C5 as stated: a validation error is raised when a list element's length
\* is neither 1 nor max_size, when max_size is 0 (list or single structure),
\* and when titles are given (an empty list too) whose number is not
\* max_size; a non-empty input with none of these raises nothing.
C5_Original ==
    (Validated /\ ~EmptyList)
    => LET bad_size == IsList(batched_structs)
                       /\ \E l \in BatchLens : l \notin {1, LargestLen}
           no_data == LargestLen = 0
           bad_titles == subplot_titles.given
                         /\ Len(subplot_titles.titles) # LargestLen
       IN  IF bad_size \/ no_data \/ bad_titles
           THEN RaisedValidation /\ NothingBuilt
           ELSE ~RaisedValidation

\* C5, amended: a ValueError is raised, with nothing built, exactly when the
\* input is a non-empty list with an element whose length is neither 1 nor
\* max_size or with no element of a positive length, or the input is not
\* empty and a non-empty list of titles has not max_size titles.  A single
\* structure of length 0 raises nothing, nor does an empty list of titles.
C5_ValidationErrors ==
    Validated
    => LET bad_size == IsList(batched_structs) /\ ~EmptyList
                       /\ \E l \in BatchLens : l \notin {1, LargestLen}
           no_data == IsList(batched_structs) /\ ~EmptyList /\ LargestLen = 0
           bad_titles == ~EmptyList /\ LargestLen > 0
                         /\ subplot_titles.given
                         /\ Len(subplot_titles.titles) > 0
                         /\ Len(subplot_titles.titles) # LargestLen
       IN  /\ RaisedValidation <=> (bad_size \/ no_data \/ bad_titles)
           /\ RaisedValidation => NothingBuilt
           /\ (raised # NoError) => RaisedValidation

\* A call that the number of titles alone has ended.
C5_Witness ==
    /\ RaisedValidation
    /\ raised.msg = InvalidTitlesMsg
    /\ IsList(batched_structs)
    /\ \A l \in BatchLens : l = LargestLen

\* C6 as stated: an empty list ends in an invalid-input error, no figure.
C6_Original ==
    (Validated /\ EmptyList)
    => pc = "raised" /\ raised.type = "ValueError" /\ fig = NoFig

\* C6, amended: an empty list is warned about ("No structs to plot") and the
\* call returns None: no exception, no scene dictionary, no figure.
C6_EmptyListWarns ==
    (Validated /\ EmptyList)
    => /\ pc = "returned"
       /\ warned = <<NoStructsMsg>>
       /\ result = Returned(None)
       /\ raised = NoError
       /\ NothingBuilt

C6_Witness == EmptyList /\ pc = "returned" /\ subplot_titles.given

\* C9 as stated: K structures of one batch size S >= 1 give S subplots, with
\* the given titles or "subplot {n+1}", each of K traces "trace{n+1}-{i+1}"
\* holding element n of structure i, and the figure of plot_scene is returned.
C9_EqualSizes ==
    (Built /\ IsList(batched_structs) /\ BatchLens = {LargestLen})
    => /\ Len(plots) = LargestLen
       /\ \A n \in 0..(LargestLen - 1) :
            /\ plots[n + 1].key =
                 (IF subplot_titles.given /\ subplot_titles.titles # <<>>
                  THEN subplot_titles.titles[n + 1]
                  ELSE "subplot " \o ToString(n + 1))
            /\ Len(plots[n + 1].value) = Len(batched_structs.elems)
            /\ \A i \in 0..(Len(batched_structs.elems) - 1) :
                 /\ plots[n + 1].value[i + 1].key =
                      "trace" \o ToString(n + 1) \o "-" \o ToString(i + 1)
                 /\ plots[n + 1].value[i + 1].value =
                      StructIndex(batched_structs.elems[i + 1], n)
       /\ pc = "returned" => result = Returned(fig)


(***************************************************************************)
(* The calls of _add_pointcloud_trace the model explores: plot_scene with  *)
(* one subplot of one cloud.                                               *)
(***************************************************************************)
\* The numbers of feature channels: 0 stands for a cloud without features.
ChannelCounts == 0..4

\* Packed point q of a cloud and channel c of its feature row: the points of
\* a cloud differ, and so do their rows; channels lie below 0 and above 1.
CloudPointAt(q) == <<q, -q, q * q>>

FeatureAt(q, c) == (((7 * q + 3 * c) % 5) - 1) * (FScale \div 2)

CloudElem(before, n, channels) ==
    [points |-> [j \in 1..n |-> CloudPointAt(before + j)],
     features |-> [j \in 1..n |->
                      [c \in 1..channels |-> FeatureAt(before + j, c)]]]

\* The lists of b positive sizes whose sum is at most total.
RECURSIVE SizeLists(_, _)
SizeLists(b, total) ==
    IF b = 0 THEN {<<>>}
    ELSE UNION {{<<n>> \o rest : rest \in SizeLists(b - 1, total - n)}
                : n \in 1..total}

CloudOfSizes(sizes, channels) ==
    Pointclouds([b \in 1..Len(sizes) |->
                    CloudElem(SumSeq(SubSeq(sizes, 1, b - 1)), sizes[b], channels)],
                channels)

\* Batches of 1..MaxCloud clouds of at most MaxPts points together.
CloudStructs ==
    {CloudOfSizes(sizes, channels) :
        sizes \in UNION {SizeLists(b, MaxPts) : b \in 1..MaxCloud},
        channels \in ChannelCounts}

InitCloud ==
    /\ pc = "plot_scene"
    /\ batched_structs = List(<<>>)
    /\ extend_struct = TRUE
    /\ subplot_titles = NoTitles
    /\ scene_dictionary = <<>>
    /\ scene_num = 0
    /\ plots \in {SceneDict(<<<<cloud>>>>) : cloud \in CloudStructs}
    /\ ncols = 1
    /\ pointcloud_max_points \in 1..MaxSample
    /\ kwargs = [yaxis |-> [showgrid |-> TRUE]]
    /\ fig = NoFig
    /\ subplot_idx = 0
    /\ trace_pos = 0
    /\ indices = NoIndices
    /\ warned = <<>>
    /\ raised = NoError
    /\ result = NoResult

SpecCloud == InitCloud /\ [][Next]_vars

(***************************************************************************)
(* Properties of _add_pointcloud_trace.                                    *)
(***************************************************************************)
\* The cloud of the call, its packed points and the trace it has emitted.
TheCloud == plots[1].value[1].value

CloudPoints == PointsPacked(TheCloud)

TraceEmitted == fig # NoFig /\ Len(fig.data) = 1

EmittedPoints == TracePoints(fig.data[1])

EmittedColor == fig.data[1].marker.color

\* The position among the packed points of a point that was plotted.
OriginalIndex(p) == CHOOSE q \in 1..Len(CloudPoints) : CloudPoints[q] = p

\* The color string of the claim for the feature row of packed point q.
ClaimedColor(q) ==
    LET row == FeaturesPacked(TheCloud).data[q]
        r == (255 * Clamp01(row[1])) \div FScale
        g == (255 * Clamp01(row[2])) \div FScale
        b == (255 * Clamp01(row[3])) \div FScale
    IN  IF TheCloud.channels = 4
        THEN "rgb(" \o ToString(r) \o ", " \o ToString(g) \o ", " \o ToString(b)
                    \o ", " \o FormatF(row[4]) \o ")"
        ELSE "rgb(" \o ToString(r) \o ", " \o ToString(g) \o ", " \o ToString(b)
                    \o ")"

\* C7 as stated: with or without sub-sampling a cloud of 4-channel features
\* gets one rgb(r,g,b,a) string per plotted point, one of 3-channel features
\* one rgb(r,g,b) string per plotted point, and any other cloud no color.
C7_ColorPerPoint ==
    /\ pc # "raised"
    /\ TraceEmitted
       => IF TheCloud.channels \in {3, 4}
          THEN /\ Len(EmittedColor) = Len(EmittedPoints)
               /\ \A k \in 1..Len(EmittedPoints) :
                    EmittedColor[k] = ClaimedColor(OriginalIndex(EmittedPoints[k]))
          ELSE EmittedColor = None

\* C8: with N packed points, batch size B and M points per cloud, the trace
\* holds the N points when N <= M*B; otherwise M*B points, each an original
\* point, none twice, and every color is that of the point's own feature row.
C8_Subsample ==
    TraceEmitted
    => LET n == Len(CloudPoints)
           total == pointcloud_max_points * StructLen(TheCloud)
       IN  IF n <= total
           THEN EmittedPoints = [k \in 1..n |-> <<CloudPoints[k][1],
                                    CloudPoints[k][2], CloudPoints[k][3]>>]
           ELSE /\ Len(EmittedPoints) = total
                /\ \A k \in 1..total :
                     \E q \in 1..n : EmittedPoints[k] = <<CloudPoints[q][1],
                                        CloudPoints[q][2], CloudPoints[q][3]>>
                /\ \A j, k \in 1..total :
                     j # k => EmittedPoints[j] # EmittedPoints[k]
                /\ TheCloud.channels \in {3, 4}
                   => /\ Len(EmittedColor) = total
                      /\ \A k \in 1..total :
                           EmittedColor[k] =
                               ClaimedColor(OriginalIndex(EmittedPoints[k]))

\* A sub-sampled trace of several colored points, not the first ones in order.
C8_Witness ==
    /\ TraceEmitted
    /\ Len(CloudPoints) > pointcloud_max_points * StructLen(TheCloud)
    /\ Len(EmittedPoints) >= 2
    /\ TheCloud.channels = 4
    /\ OriginalIndex(EmittedPoints[1]) > OriginalIndex(EmittedPoints[2])


(***************************************************************************)
(* The calls of _add_mesh_trace the model explores: plot_scene with one    *)
(* subplot of one mesh.                                                    *)
(***************************************************************************)
\* Vertex k of a mesh: the vertices of a mesh differ on every axis but z.
VertAt(k) == <<k * k, -k, (3 * k) % 4>>

\* The faces over n vertices: triples of increasing 0-based indices.
Triples(n) ==
    {t \in (0..(n - 1)) \X (0..(n - 1)) \X (0..(n - 1)) :
        t[1] < t[2] /\ t[2] < t[3]}

LexLess(s, t) ==
    \/ s[1] < t[1]
    \/ s[1] = t[1] /\ s[2] < t[2]
    \/ s[1] = t[1] /\ s[2] = t[2] /\ s[3] < t[3]

\* The lists of m different faces over n vertices, each list in one order.
RECURSIVE FaceLists(_, _)
FaceLists(n, m) ==
    IF m = 0 THEN {<<>>}
    ELSE {Append(p[1], p[2]) :
            p \in {q \in FaceLists(n, m - 1) \X Triples(n) :
                      q[1] = <<>> \/ LexLess(q[1][Len(q[1])], q[2])}}

MeshOf(n, faces) ==
    Meshes(<<[verts |-> [k \in 1..n |-> VertAt(k)], faces |-> faces,
              vrgb |-> <<>>]>>, FALSE)


\* Meshes of 3..MaxVerts vertices and 1..MaxFaces faces, and the batch of two
\* meshes of SceneStructs: every number of unused vertices occurs.
MeshStructs ==
    UNION {{MeshOf(n, faces) :
                faces \in UNION {FaceLists(n, m) : m \in 1..MaxFaces}}
           : n \in 3..MaxVerts}
    \cup {Meshes(<<TriA, TriB>>, TRUE)}

InitMesh ==
    /\ pc = "plot_scene"
    /\ batched_structs = List(<<>>)
    /\ extend_struct = TRUE
    /\ subplot_titles = NoTitles
    /\ scene_dictionary = <<>>
    /\ scene_num = 0
    /\ plots \in {SceneDict(<<<<mesh>>>>) : mesh \in MeshStructs}
    /\ ncols = 1
    /\ pointcloud_max_points = DefaultMaxPoints
    /\ kwargs = [yaxis |-> [showgrid |-> TRUE]]
    /\ fig = NoFig
    /\ subplot_idx = 0
    /\ trace_pos = 0
    /\ indices = NoIndices
    /\ warned = <<>>
    /\ raised = NoError
    /\ result = NoResult

SpecMesh == InitMesh /\ [][Next]_vars


(***************************************************************************)
(* Properties of _add_mesh_trace.                                          *)
(***************************************************************************)
\* The mesh of the call, its packed vertices as given, and the positions
\* (1-based) of the vertices some face refers to.
TheMesh == plots[1].value[1].value

MeshVerts == VertsPacked(TheMesh)

Referenced ==
    {k \in 1..Len(MeshVerts) :
        \E f \in 1..Len(FacesPacked(TheMesh)) :
            \E c \in 1..3 : FacesPacked(TheMesh)[f][c] + 1 = k}

\* The sum on axis a of the referenced vertices as given, and of all the
\* plotted vertices.
ReferencedSum(a) ==
    SumSeq([k \in 1..Len(MeshVerts) |->
               IF k \in Referenced THEN MeshVerts[k][a] ELSE 0])

PlottedSum(a) == SumSeq([k \in 1..Len(EmittedPoints) |-> EmittedPoints[k][a]])

\* The largest spread of the plotted vertices over the three axes.
PlottedSpread(a) ==
    LET on_axis == {EmittedPoints[k][a] : k \in 1..Len(EmittedPoints)}
        hi == CHOOSE v \in on_axis : \A w \in on_axis : w <= v
        lo == CHOOSE v \in on_axis : \A w \in on_axis : v <= w
    IN  hi - lo

PlottedExtent ==
    CHOOSE e \in {PlottedSpread(a) : a \in Axes} :
        \A a \in Axes : PlottedSpread(a) <= e

\* C11: a vertex some face refers to is plotted where it is, every other
\* vertex at the mean of the referenced vertices; the range the trace gives
\* each axis is centered at the mean of all plotted vertices and reaches the
\* largest spread of the plotted vertices to either side.
C11_UnusedVertsAtCenter ==
    TraceEmitted
    => /\ Len(EmittedPoints) = Len(MeshVerts)
       /\ \A k \in 1..Len(MeshVerts) :
            IF k \in Referenced
            THEN \A a \in Axes : EmittedPoints[k][a] = MeshVerts[k][a]
            ELSE \A a \in Axes :
                    EmittedPoints[k][a] * Cardinality(Referenced) = ReferencedSum(a)
       /\ \A a \in Axes :
            LET r == AxisRange(fig, 1, a)
            IN  /\ r # None
                /\ Len(EmittedPoints) * (r[1] + r[2]) = 2 * PlottedSum(a)
                /\ r[2] - r[1] = 2 * PlottedExtent

\* A plotted mesh with two vertices no face refers to, both moved from where
\* they were given.
C11_Witness ==
    /\ TraceEmitted
    /\ \E j, k \in 1..Len(MeshVerts) :
         /\ j # k
         /\ j \notin Referenced /\ k \notin Referenced
         /\ \E a \in Axes : EmittedPoints[j][a] # MeshVerts[j][a]
         /\ \E a \in Axes : EmittedPoints[k][a] # MeshVerts[k][a]

====
